---- MODULE Spec2Model ----
(***************************************************************************)
(* Emergency dispatch engine of the ATC dashboard.                         *)
(*                                                                         *)
(* The model covers the two file-backed stores (be/emergencies.json and    *)
(* be/dispatch_records.json), the /api/emergencies action handler, the     *)
(* alert-creating tail of the transcript handler and both revisions of the *)
(* POST /api/dispatch handler that fe/src/app/api/dispatch/route.ts holds. *)
(* Every handler runs on the single Node.js event loop and uses the        *)
(* synchronous fs calls, so a handler is atomic between two awaits; the    *)
(* only await that lets other requests in is the provider fetch().         *)
(*                                                                         *)
(* Spec is the dispatch engine with the default recipient directory.       *)
(* SpecDirectory runs the same handlers with a directory file that lacks a *)
(* role, SpecListing and SpecHistory put the two GET handlers next to the  *)
(* handlers that write their stores, and SpecClassify posts one transcript *)
(* to either transcript route under every answer of the extraction service.*)
(***************************************************************************)
EXTENDS Integers, Sequences, FiniteSets, TLC

(* ------------------------------ bounds --------------------------------- *)

\* number of alerts the transcript handler creates in a run
MaxAlerts == 1

\* number of POST /api/dispatch requests in a run (each may overlap the others)
MaxReq == 2

\* number of alerts in the runs that check the alert listing
MaxListed == 3

\* number of words of the transcripts drawn for classification
MaxWords == 2

\* number of times the same transcript is posted in a run
MaxPosts == 2

\* number of dispatches the operator starts from the alerts panel in a run
MaxClicks == 3

(* ------------------------- program constants --------------------------- *)

\* GET /api/dispatch: parseInt(searchParams.get('limit') || '10')
DefaultLimit == 10

\* saveDispatchRecord: "Keep only last 100 records"
RecordRetention == 100

\* transcript handler: "Keep only last 50 emergencies"
AlertRetention == 50

(* ------------------------------ state ---------------------------------- *)

VARIABLES
  env,                \* process environment: credentials, catalog file, directory
                      \* file, handler revision, emergency types the clients send,
                      \* whether be/dispatch_records.json can be written
  emergenciesExists,  \* does be/emergencies.json exist
  emergencies,        \* contents of be/emergencies.json, newest alert first
  nextAlert,          \* number of alerts created so far
  records,            \* contents of be/dispatch_records.json, oldest first
  dispatch,           \* per dispatch request: position, body, locals, response
  emReq,              \* the latest POST /api/emergencies request and its response
  listing,            \* the latest GET /api/emergencies response
  history,            \* the latest GET /api/dispatch request and its response
  classified,         \* the transcript under classification and the responses to it
  panel               \* the dashboard's alerts panel: its alerts, dispatchingAlert,
                      \* the dispatch requests it has in flight

vars == <<env, emergenciesExists, emergencies, nextAlert, records, dispatch, emReq,
          listing, history, classified, panel>>

\* what the read handlers and the transcript handlers answer with, and the
\* dashboard that no server handler touches
answers == <<listing, history, classified, panel>>

Reqs == 1..MaxReq

\* ids a request body may carry: 0 is the missing (falsy) id, 1..MaxAlerts
\* are ids the transcript handler hands out, MaxAlerts + 1 is never stored
RequestIds == 0..(MaxAlerts + 1)

Range(s) == {s[i] : i \in 1..Len(s)}

(* --------------------------- the alert store --------------------------- *)

StoredIds == {emergencies[i].id : i \in 1..Len(emergencies)}

AlertOf(ems, id) == ems[CHOOSE i \in 1..Len(ems) : ems[i].id = id]

\* emergencies.slice(0, n)
KeepFirst(ems, n) == IF Len(ems) > n THEN SubSeq(ems, 1, n) ELSE ems

NewAlert(id) ==
  [id |-> id, status |-> "ACTIVE", acknowledged |-> FALSE,
   escalated |-> FALSE, dispatched |-> FALSE]

\* tail of the transcript handler: unshift the new alert, keep 50, write;
\* a run creates at most `most` alerts
CreateAlertUpTo(most) ==
  /\ nextAlert < most
  /\ nextAlert' = nextAlert + 1
  /\ emergencies' = KeepFirst(<<NewAlert(nextAlert + 1)>> \o emergencies, AlertRetention)
  /\ emergenciesExists' = TRUE
  /\ UNCHANGED <<env, records, dispatch, emReq, answers>>

CreateAlert == CreateAlertUpTo(MaxAlerts)

(* -------------------------- protocol catalog --------------------------- *)

\* A string is a sequence of tokens; a placeholder is one token.
\* be/emergency_protocols.json as shipped
ShippedProtocols ==
  [bird_strike |->
     [priority |-> "high", recipients |-> <<"airport_ops", "fire_rescue">>,
      script |-> <<"Emergency alert for flight ", "{callsign}",
                   ". Bird strike reported on departure. Aircraft returning to field with ",
                   "{souls}", " souls on board. Requesting immediate runway preparation.">>],
   engine_failure |->
     [priority |-> "critical", recipients |-> <<"fire_rescue", "medical", "airport_ops">>,
      script |-> <<"Critical emergency for flight ", "{callsign}",
                   ". Engine failure reported. Request full emergency response.">>],
   medical_emergency |->
     [priority |-> "critical", recipients |-> <<"medical", "airport_ops">>,
      script |-> <<"Medical emergency aboard flight ", "{callsign}",
                   ". Immediate medical response required upon landing.">>],
   fuel_emergency |->
     [priority |-> "high", recipients |-> <<"airport_ops", "fire_rescue">>,
      script |-> <<"Fuel emergency declared by flight ", "{callsign}",
                   ". Aircraft requesting priority handling and direct approach.">>],
   hydraulic_failure |->
     [priority |-> "critical", recipients |-> <<"fire_rescue", "airport_ops">>,
      script |-> <<"Hydraulic system failure reported by flight ", "{callsign}",
                   ". Request emergency vehicles and foam trucks standing by.">>],
   electrical_failure |->
     [priority |-> "high", recipients |-> <<"airport_ops", "fire_rescue">>,
      script |-> <<"Electrical emergency reported by flight ", "{callsign}",
                   ". Request priority vectors and emergency lighting preparation.">>],
   pressurization_emergency |->
     [priority |-> "critical", recipients |-> <<"medical", "airport_ops">>,
      script |-> <<"Cabin pressurization emergency for flight ", "{callsign}",
                   ". Aircraft descending to safe altitude.">>],
   fire_emergency |->
     [priority |-> "critical", recipients |-> <<"fire_rescue", "medical", "airport_ops">>,
      script |-> <<"FIRE EMERGENCY reported by flight ", "{callsign}",
                   ". Immediate emergency response required.">>],
   security_threat |->
     [priority |-> "critical", recipients |-> <<"airport_ops", "faa_tower">>,
      script |-> <<"Security threat reported aboard flight ", "{callsign}",
                   ". Law enforcement and security teams required.">>],
   general_emergency |->
     [priority |-> "high", recipients |-> <<"airport_ops">>,
      script |-> <<"General emergency declared by flight ", "{callsign}",
                   ". Nature of emergency: ", "{description}",
                   ". Requesting appropriate emergency response coordination.">>],
   mayday_call |->
     [priority |-> "critical", recipients |-> <<"fire_rescue", "medical", "airport_ops">>,
      script |-> <<"MAYDAY MAYDAY MAYDAY. Emergency distress call from flight ", "{callsign}",
                   ". All emergency services respond immediately.">>]]

\* the entry both revisions of the handler hard-code
InlineGeneral ==
  [priority |-> "high", recipients |-> <<"airport_ops">>,
   script |-> <<"General emergency declared by ", "{callsign}", ". Nature: ",
                "{description}", ".">>]

Restrict(f, S) == [k \in S |-> f[k]]

\* what JSON.parse(readFileSync(protocolsPath)) yields for each catalog file
\* the deployment may carry; "absent" has no file to parse
CatalogFiles == {"shipped", "no_general", "absent"}

ParsedCatalog(file) ==
  IF file = "shipped" THEN ShippedProtocols
  ELSE Restrict(ShippedProtocols, DOMAIN ShippedProtocols \ {"general_emergency"})

\* JavaScript's undefined
Undefined == [undefined |-> TRUE]

Lookup(protocols, key) ==
  IF key \in DOMAIN protocols THEN protocols[key] ELSE Undefined

\* a || b
OrElse(a, b) == IF a = Undefined THEN b ELSE a

\* revision 1, lines 43-62: protocols = {} unless the file exists
ResolveProtocol1(file, emergencyType) ==
  LET protocols == IF file = "absent" THEN <<>> ELSE ParsedCatalog(file)
  IN  OrElse(Lookup(protocols, emergencyType),
             OrElse(Lookup(protocols, "general_emergency"), InlineGeneral))

\* revision 2: the default catalog is used only when the file does not exist
GetEmergencyProtocols(file) ==
  IF file = "absent" THEN [general_emergency |-> InlineGeneral]
  ELSE ParsedCatalog(file)

ResolveProtocol2(file, emergencyType) ==
  LET protocols == GetEmergencyProtocols(file)
  IN  OrElse(Lookup(protocols, emergencyType), Lookup(protocols, "general_emergency"))

\* the inline default of revision 1 and of getDispatchConfigs
DefaultServices ==
  [airport_ops |-> "+1-650-821-7014",
   fire_rescue |-> "+1-650-599-1378",
   medical     |-> "+1-650-821-5151"]

\* be/dispatch_configs.json is not shipped: "absent" makes the handler read
\* the defaults, "no_fire_rescue" is a file whose emergency_services names
\* airport_ops and medical only (default_recipient airport_ops)
DirectoryFiles == {"absent", "no_fire_rescue"}

\* configs.emergency_services || { ... }
EmergencyServices(file) ==
  IF file = "absent" THEN DefaultServices
  ELSE Restrict(DefaultServices, {"airport_ops", "medical"})

\* emergencyServices[primaryRecipient] || emergencyServices['airport_ops']
PhoneNumber(file, primaryRecipient) ==
  LET emergencyServices == EmergencyServices(file)
  IN  IF primaryRecipient \in DOMAIN emergencyServices
      THEN emergencyServices[primaryRecipient]
      ELSE IF "airport_ops" \in DOMAIN emergencyServices
      THEN emergencyServices["airport_ops"]
      ELSE "undefined"

(* --------------------------- script rendering -------------------------- *)

\* String.prototype.replace with a string pattern: the first occurrence only
ReplaceFirst(s, token, value) ==
  IF \E i \in 1..Len(s) : s[i] = token
  THEN LET k == CHOOSE i \in 1..Len(s) :
                  /\ s[i] = token
                  /\ \A j \in 1..(i - 1) : s[j] # token
       IN  [s EXCEPT ![k] = value]
  ELSE s

IsDigits(tok) == tok \in {"180", "42"}

\* positions where /(\d+)\s*souls/i matches: digits right before "souls"
SoulsAt(msg) ==
  {i \in 1..(Len(msg) - 1) : IsDigits(msg[i]) /\ msg[i + 1] = " souls"}

\* soulsMatch[1] of the first match
SoulsMatch(msg) == msg[CHOOSE i \in SoulsAt(msg) : \A j \in SoulsAt(msg) : i <= j]

\* new Date().toLocaleTimeString(...) + ' UTC'
TimestampText == "HH:MM UTC"

\* revision 1
GenerateCallScript(callsign, description, originalMessage, protocol) ==
  LET souls == IF /\ originalMessage # <<>>
                  /\ " souls" \in Range(originalMessage)
                  /\ SoulsAt(originalMessage) # {}
               THEN SoulsMatch(originalMessage)
               ELSE "unknown number of"
      r1 == ReplaceFirst(protocol.script, "{callsign}", callsign)
      r2 == ReplaceFirst(r1, "{description}", description)
      r3 == ReplaceFirst(r2, "{souls}", souls)
      r4 == ReplaceFirst(r3, "{timestamp}", TimestampText)
  IN  IF originalMessage # <<>>
      THEN r4 \o <<" Original ATC communication: \"">> \o originalMessage \o <<"\"">>
      ELSE r4

\* revision 2, lines 415-419
InlineScript(callsign, description, emergencyType, protocol) ==
  ReplaceFirst(ReplaceFirst(ReplaceFirst(protocol.script,
     "{callsign}", callsign), "{description}", description),
     "{emergency_type}", emergencyType)

Placeholders == {"{callsign}", "{description}", "{souls}", "{timestamp}"}

(* ------------------------- the dispatch store -------------------------- *)

\* records.push(record); keep the last 100; write
SaveDispatchRecord(recs, record) ==
  LET pushed == Append(recs, record)
  IN  IF Len(pushed) > RecordRetention
      THEN SubSeq(pushed, Len(pushed) - RecordRetention + 1, Len(pushed))
      ELSE pushed

\* the try/catch of saveDispatchRecord: a write that throws is logged and
\* the store keeps what it held
TrySaveDispatchRecord(recs, record) ==
  IF env.recordsFile = "writable" THEN SaveDispatchRecord(recs, record) ELSE recs

\* a map that builds the dispatched alert anew instead of spreading it
UpdateEmergencyStatusAnew(exists, ems, alertId) ==
  IF ~exists THEN ems
  ELSE [i \in 1..Len(ems) |->
          IF ems[i].id = alertId
          THEN [NewAlert(alertId) EXCEPT !.dispatched = TRUE, !.escalated = TRUE,
                                         !.status = "DISPATCHED"]
          ELSE ems[i]]

\* map over the alerts; nothing is read or written when the file is missing
UpdateEmergencyStatus(exists, ems, alertId) ==
  IF ~exists THEN ems
  ELSE [i \in 1..Len(ems) |->
          IF ems[i].id = alertId
          THEN [ems[i] EXCEPT !.dispatched = TRUE, !.escalated = TRUE,
                              !.status = "DISPATCHED"]
          ELSE ems[i]]

(* --------------------------- POST /api/dispatch ------------------------ *)

\* the fields every modelled request carries unchanged
Callsign == "UAL123"
Description == "Bird strike on departure"

RequestTypes == {"bird_strike", "bespoke_type"}

Messages == {<<"Mayday, ", "180", " souls", " on board">>}

\* env.types: the emergency types the clients of this run send
Bodies == [alertId : RequestIds, emergencyType : env.types, originalMessage : Messages]

Idle ==
  [pc |-> "idle", body |-> <<>>, recipients |-> <<>>, phone |-> "", script |-> <<>>,
   attempts |-> 0, provider |-> "none", status |-> 0, call_status |-> "none"]

\* requests are numbered in the order they arrive
Arrives(r) == dispatch[r].pc = "idle" /\ \A q \in 1..(r - 1) : dispatch[q].pc # "idle"

\* revision 1, lines 32-37: !alertId || !callsign || !emergencyType
MissingFields(body) == body.alertId = 0 \/ Callsign = "" \/ body.emergencyType = ""

Protocol(body) ==
  IF env.rev = 1 THEN ResolveProtocol1(env.catalog, body.emergencyType)
  ELSE ResolveProtocol2(env.catalog, body.emergencyType)

\* revision 2 throws a TypeError on protocol.recipients of undefined and on
\* alertId.slice of undefined; the catch answers 500
Throws(body) == env.rev = 2 /\ (Protocol(body) = Undefined \/ body.alertId = 0)

Script(body) ==
  IF env.rev = 1
  THEN GenerateCallScript(Callsign, Description, body.originalMessage, Protocol(body))
  ELSE InlineScript(Callsign, Description, body.emergencyType, Protocol(body))

\* the handler's locals once the pending record has been built
Prepared(body) ==
  [Idle EXCEPT !.body = body,
               !.recipients = Protocol(body).recipients,
               !.phone = PhoneNumber(env.directory, Protocol(body).recipients[1]),
               !.script = Script(body),
               !.call_status = "pending"]

\* a record whose mock call id looks like a provider's
DispatchRecordUntagged(d) ==
  [alert_id |-> d.body.alertId, emergency_type |-> d.body.emergencyType,
   call_recipient |-> d.recipients[1], call_status |-> d.call_status,
   call_id |-> IF d.provider \in {"sim", "ok"} THEN "provider_call" ELSE "none"]

DispatchRecordOf(d) ==
  [alert_id |-> d.body.alertId, emergency_type |-> d.body.emergencyType,
   call_recipient |-> d.recipients[1], call_status |-> d.call_status,
   call_id |-> IF d.provider = "sim" THEN "sim_call" ELSE
               IF d.provider = "ok" THEN "provider_call" ELSE "none"]

\* lines 98-120: set the record's status from vapiSuccess, save, update, answer
Finish(d, provider) ==
  [d EXCEPT !.pc = "done", !.provider = provider, !.status = 200,
            !.call_status = IF provider \in {"sim", "ok"} THEN "calling" ELSE "failed"]

\* the request is answered before any call or write: 400 or 500
DispatchRefuse(r) ==
  \E body \in Bodies :
    /\ Arrives(r)
    /\ \/ env.rev = 1 /\ MissingFields(body)
       \/ Throws(body)
    /\ dispatch' = [dispatch EXCEPT ![r] =
         [Idle EXCEPT !.pc = "done", !.body = body,
                      !.status = IF env.rev = 1 THEN 400 ELSE 500]]
    /\ UNCHANGED <<env, emergenciesExists, emergencies, nextAlert, records, emReq, answers>>

\* no credentials: makeRealVAPICall answers at once with a simulated call id
DispatchSimulated(r) ==
  \E body \in Bodies :
    /\ Arrives(r)
    /\ ~(env.rev = 1 /\ MissingFields(body))
    /\ ~Throws(body)
    /\ ~env.credentials
    /\ LET d == Finish(Prepared(body), "sim")
       IN  /\ dispatch' = [dispatch EXCEPT ![r] = d]
           /\ records' = TrySaveDispatchRecord(records, DispatchRecordOf(d))
           /\ emergencies' = UpdateEmergencyStatus(emergenciesExists, emergencies, body.alertId)
    /\ UNCHANGED <<env, emergenciesExists, nextAlert, emReq, answers>>

\* credentials present: fetch() is issued and the handler awaits the answer
DispatchCallProvider(r) ==
  \E body \in Bodies :
    /\ Arrives(r)
    /\ ~(env.rev = 1 /\ MissingFields(body))
    /\ ~Throws(body)
    /\ env.credentials
    /\ dispatch' = [dispatch EXCEPT ![r] =
         [Prepared(body) EXCEPT !.pc = "awaiting", !.attempts = 1]]
    /\ UNCHANGED <<env, emergenciesExists, emergencies, nextAlert, records, emReq, answers>>

ProviderOutcomes == {"ok", "http_error", "exception"}

\* the provider answers (or fetch throws) and the handler runs to its response
ProviderReturn(r) ==
  \E outcome \in ProviderOutcomes :
    /\ dispatch[r].pc = "awaiting"
    /\ LET d == Finish(dispatch[r], outcome)
       IN  /\ dispatch' = [dispatch EXCEPT ![r] = d]
           /\ records' = TrySaveDispatchRecord(records, DispatchRecordOf(d))
           /\ emergencies' = UpdateEmergencyStatus(emergenciesExists, emergencies,
                                                   d.body.alertId)
    /\ UNCHANGED <<env, emergenciesExists, nextAlert, emReq, answers>>

\* The process dies while requests await the provider: their handlers never
\* run on, whether or not the provider had accepted the call ("ok"); the
\* files keep what was written and the restarted process serves what arrives.
Crash ==
  /\ \E r \in Reqs : dispatch[r].pc = "awaiting"
  /\ \E accepted \in [Reqs -> BOOLEAN] :
       dispatch' = [r \in Reqs |->
         IF dispatch[r].pc = "awaiting"
         THEN [dispatch[r] EXCEPT !.pc = "crashed",
                                  !.provider = IF accepted[r] THEN "ok" ELSE "none"]
         ELSE dispatch[r]]
  /\ UNCHANGED <<env, emergenciesExists, emergencies, nextAlert, records, emReq, answers>>

(* -------------------------- POST /api/emergencies ---------------------- *)

Actions == {"acknowledge", "escalate", "resolve", "archive"}

ApplyAction(emergency, action) ==
  IF action = "acknowledge"
  THEN [emergency EXCEPT !.acknowledged = TRUE, !.status = "ACKNOWLEDGED"]
  ELSE IF action = "escalate" THEN [emergency EXCEPT !.escalated = TRUE]
  ELSE IF action = "resolve" THEN [emergency EXCEPT !.status = "RESOLVED"]
  ELSE emergency

EmergencyAction ==
  \E emergencyId \in RequestIds, action \in Actions :
    /\ IF emergencyId = 0
       THEN /\ emReq' = [id |-> emergencyId, action |-> action, status |-> 400]
            /\ UNCHANGED emergencies
       ELSE IF ~emergenciesExists
       THEN /\ emReq' = [id |-> emergencyId, action |-> action, status |-> 404]
            /\ UNCHANGED emergencies
       ELSE /\ emReq' = [id |-> emergencyId, action |-> action, status |-> 200]
            /\ emergencies' = [i \in 1..Len(emergencies) |->
                                 IF emergencies[i].id = emergencyId
                                 THEN ApplyAction(emergencies[i], action)
                                 ELSE emergencies[i]]
    /\ UNCHANGED <<env, emergenciesExists, nextAlert, records, dispatch, answers>>

(* --------------------------- GET /api/emergencies ---------------------- *)

NoListing == [status |-> 0, emergencies |-> <<>>]

IsActive(emergency) == emergency.status = "ACTIVE"

NotResolved(emergency) == emergency.status # "RESOLVED"

\* a listing that filters on status !== 'RESOLVED'
GetEmergenciesUnresolved(exists, ems) ==
  IF ~exists THEN <<>> ELSE SelectSeq(ems, NotResolved)

\* [] when the file is missing, else emergencies.filter(status === 'ACTIVE')
GetEmergencies(exists, ems) ==
  IF ~exists THEN <<>> ELSE SelectSeq(ems, IsActive)

ListEmergencies ==
  /\ listing' = [status |-> 200,
                 emergencies |-> GetEmergencies(emergenciesExists, emergencies)]
  /\ UNCHANGED <<env, emergenciesExists, emergencies, nextAlert, records, dispatch,
                 emReq, history, classified, panel>>

(* ---------------------------- GET /api/dispatch ------------------------ *)

NoHistory == [limit |-> DefaultLimit, status |-> 0, records |-> <<>>]

\* the limit query parameter: absent, or the decimal text of a number
LimitParams == {[given |-> FALSE, value |-> 0]} \cup [given : {TRUE}, value : 0..(MaxReq + 1)]

\* parseInt(searchParams.get('limit') || '10')
ParseLimit(param) == IF param.given THEN param.value ELSE DefaultLimit

\* Array.prototype.slice(start): a negative start counts from the end, and
\* -0 is 0, the start of the array
Slice(recs, start) ==
  LET len == Len(recs)
      k == IF start < 0
           THEN (IF len + start > 0 THEN len + start ELSE 0)
           ELSE (IF start < len THEN start ELSE len)
  IN  SubSeq(recs, k + 1, len)

Reverse(recs) == [i \in 1..Len(recs) |-> recs[Len(recs) + 1 - i]]

\* records.slice(-limit).reverse(); a missing file answers [] as an empty one does
RecentRecords(recs, limit) == Reverse(Slice(recs, -limit))

GetDispatchRecords ==
  \E param \in LimitParams :
    /\ history' = [limit |-> ParseLimit(param), status |-> 200,
                   records |-> RecentRecords(records, ParseLimit(param))]
    /\ UNCHANGED <<env, emergenciesExists, emergencies, nextAlert, records, dispatch,
                   emReq, listing, classified, panel>>

(* ------------------------ dashboard: handleDispatch -------------------- *)

\* Response.ok
ResponseOk(status) == status \in 200..299

\* what handleDispatch does with an answered request d: on response.ok it
\* marks its copy of the alert dispatched, escalated and DISPATCHED and shows
\* the green toast with the call_status of the answer; otherwise it leaves
\* its copy alone and shows the red toast
HandleDispatch(d) ==
  IF ResponseOk(d.status)
  THEN [toast |-> "EMERGENCY DISPATCH INITIATED", call_status |-> d.call_status,
        marksDispatched |-> TRUE]
  ELSE [toast |-> "Dispatch Failed", call_status |-> "none",
        marksDispatched |-> FALSE]

(* ------------------------ dashboard: alerts panel ---------------------- *)

\* useState: alerts [], dispatchingAlert null (0); inFlight lists the alert
\* ids of the POST /api/dispatch requests that await their answer, issued
\* counts the dispatches the operator has started
NoPanel == [alerts |-> <<>>, dispatchingAlert |-> 0, inFlight |-> <<>>, issued |-> 0]

\* fetchEmergencies with the 5 s interval, taken as one step: GET
\* /api/emergencies and setAlerts with dispatched computed from the answer
Poll ==
  /\ LET data == GetEmergencies(emergenciesExists, emergencies)
     IN  panel' = [panel EXCEPT !.alerts =
           [i \in 1..Len(data) |->
              [id |-> data[i].id,
               dispatched |-> data[i].status = "ACKNOWLEDGED" \/ data[i].escalated]]]
  /\ UNCHANGED <<env, emergenciesExists, emergencies, nextAlert, records, dispatch,
                 emReq, listing, history, classified>>

\* the alerts of the panel that show no dispatched mark; every modelled
\* alert is CRITICAL, so each of them has the DISPATCH button
Undispatched == {i \in 1..Len(panel.alerts) : ~panel.alerts[i].dispatched}

\* the first lines of handleDispatch: setDispatchingAlert, fetch
StartDispatch(alertId) ==
  /\ panel.issued < MaxClicks
  /\ panel' = [panel EXCEPT !.dispatchingAlert = alertId,
                            !.inFlight = Append(@, alertId),
                            !.issued = @ + 1]
  /\ UNCHANGED <<env, emergenciesExists, emergencies, nextAlert, records, dispatch,
                 emReq, listing, history, classified>>

\* the DISPATCH button: rendered for an alert without the dispatched mark,
\* disabled while dispatchingAlert === alert.id
ClickDispatch ==
  \E i \in Undispatched :
    /\ panel.dispatchingAlert # panel.alerts[i].id
    /\ StartDispatch(panel.alerts[i].id)

\* the 'd' key: only while dispatchingAlert is null, for the first alert
\* without the dispatched mark
PressD ==
  /\ panel.dispatchingAlert = 0
  /\ Undispatched # {}
  /\ StartDispatch(panel.alerts[CHOOSE i \in Undispatched :
                                  \A j \in Undispatched : i <= j].id)

RemoveAt(seq, k) == SubSeq(seq, 1, k - 1) \o SubSeq(seq, k + 1, Len(seq))

\* the outcomes makeRealVAPICall can have in this environment
CallOutcomes == IF env.credentials THEN ProviderOutcomes ELSE {"sim"}

\* one request in flight is served and answered, and handleDispatch runs on:
\* the mark per the answer, and setDispatchingAlert(null) in the finally
DispatchAnswered ==
  \E k \in 1..Len(panel.inFlight), outcome \in CallOutcomes, body \in Bodies :
    /\ body.alertId = panel.inFlight[k]
    /\ ~(env.rev = 1 /\ MissingFields(body))
    /\ ~Throws(body)
    /\ LET d == Finish(Prepared(body), outcome)
       IN  /\ records' = TrySaveDispatchRecord(records, DispatchRecordOf(d))
           /\ emergencies' = UpdateEmergencyStatus(emergenciesExists, emergencies,
                                                   body.alertId)
           /\ panel' = [panel EXCEPT
                 !.alerts = [i \in 1..Len(panel.alerts) |->
                               IF /\ panel.alerts[i].id = body.alertId
                                  /\ HandleDispatch(d).marksDispatched
                               THEN [panel.alerts[i] EXCEPT !.dispatched = TRUE]
                               ELSE panel.alerts[i]],
                 !.dispatchingAlert = 0,
                 !.inFlight = RemoveAt(@, k)]
    /\ UNCHANGED <<env, emergenciesExists, nextAlert, dispatch, emReq, listing, history,
                   classified>>

(* ------------------------ transcript classification -------------------- *)

\* A transcript is a sequence of words; a keyword is a sequence of lower-case
\* words, and text.includes(keyword) holds when the keyword's words occur in
\* the text next to each other.
Words == {"MAYDAY", "engine", "failure", "fire", "turbulence", "smooth",
          "emergency", "cleared", "medical"}

\* the transcript of the documented engine-failure scenario
ScenarioA == <<"MAYDAY", "MAYDAY", "UAL123", "engine", "failure",
               "requesting", "immediate", "landing">>

RECURSIVE WordSeqs(_)
WordSeqs(n) ==
  IF n = 0 THEN {<<>>}
  ELSE LET shorter == WordSeqs(n - 1)
       IN  shorter \cup {Append(t, w) : t \in {u \in shorter : Len(u) = n - 1}, w \in Words}

Transcripts == WordSeqs(MaxWords) \cup {ScenarioA}

\* number of characters of a word
Chars(word) ==
  CASE word \in {"fire"} -> 4
    [] word \in {"MAYDAY", "engine", "smooth", "UAL123"} -> 6
    [] word \in {"failure", "cleared", "medical", "landing"} -> 7
    [] word \in {"emergency", "immediate"} -> 9
    [] OTHER -> 10

RECURSIVE Length(_)
\* transcript.length: the words and the blanks between them
Length(transcript) ==
  IF transcript = <<>> THEN 0
  ELSE IF Len(transcript) = 1 THEN Chars(transcript[1])
  ELSE Chars(Head(transcript)) + 1 + Length(Tail(transcript))

\* transcript.toLowerCase()
ToLowerCase(transcript) ==
  [i \in 1..Len(transcript) |->
     IF transcript[i] = "MAYDAY" THEN "mayday" ELSE transcript[i]]

Includes(text, keyword) ==
  \E i \in 0..(Len(text) - Len(keyword)) :
    \A j \in 1..Len(keyword) : text[i + j] = keyword[j]

\* the tables of detectEmergencyType, in declaration order
EmergencyTypes ==
  <<[type |-> "mayday_call", keywords |-> {<<"mayday">>}],
    [type |-> "engine_failure",
     keywords |-> {<<"engine", "failure">>, <<"engine", "fire">>, <<"lost", "engine">>,
                   <<"engine", "out">>}],
    [type |-> "bird_strike", keywords |-> {<<"bird", "strike">>, <<"bird", "hit">>}],
    [type |-> "medical_emergency",
     keywords |-> {<<"medical", "emergency">>, <<"cardiac", "arrest">>,
                   <<"passenger", "down">>, <<"medical">>}],
    [type |-> "fuel_emergency",
     keywords |-> {<<"fuel", "emergency">>, <<"minimum", "fuel">>, <<"low", "fuel">>}],
    [type |-> "fire_emergency",
     keywords |-> {<<"fire">>, <<"smoke", "in", "cabin">>, <<"smoke">>}],
    [type |-> "hydraulic_failure",
     keywords |-> {<<"hydraulic", "failure">>, <<"hydraulic">>}],
    [type |-> "pressurization_emergency",
     keywords |-> {<<"pressurization">>, <<"cabin", "pressure">>}],
    [type |-> "security_threat",
     keywords |-> {<<"hijack">>, <<"security", "threat">>, <<"suspicious">>}],
    [type |-> "general_emergency",
     keywords |-> {<<"emergency">>, <<"pan", "pan">>, <<"declaring", "emergency">>}]>>

WarningTypes ==
  <<[type |-> "weather_warning",
     keywords |-> {<<"severe", "weather">>, <<"turbulence">>, <<"windshear">>,
                   <<"microburst">>, <<"thunderstorm">>}],
    [type |-> "equipment_warning",
     keywords |-> {<<"equipment", "malfunction">>, <<"system", "failure">>,
                   <<"warning", "light">>, <<"caution">>}],
    [type |-> "traffic_warning",
     keywords |-> {<<"traffic", "alert">>, <<"tcas">>, <<"collision", "avoidance">>,
                   <<"traffic">>}],
    [type |-> "altitude_warning",
     keywords |-> {<<"altitude", "deviation">>, <<"wrong", "altitude">>,
                   <<"climb", "immediately">>}],
    [type |-> "navigation_warning",
     keywords |-> {<<"navigation", "error">>, <<"off", "course">>, <<"waypoint">>,
                   <<"gps">>}],
    [type |-> "communication_warning",
     keywords |-> {<<"radio", "failure">>, <<"comm", "failure">>,
                   <<"lost", "communication">>}]>>

ReportTypes ==
  <<[type |-> "pirep_turbulence",
     keywords |-> {<<"pirep">>, <<"pilot", "report">>, <<"turbulence", "report">>,
                   <<"smooth">>, <<"light", "chop">>, <<"moderate", "turbulence">>}],
    [type |-> "pirep_weather",
     keywords |-> {<<"icing">>, <<"cloud", "tops">>, <<"visibility">>,
                   <<"weather", "report">>}],
    [type |-> "pirep_winds",
     keywords |-> {<<"wind", "report">>, <<"headwind">>, <<"tailwind">>, <<"crosswind">>}],
    [type |-> "incident_report",
     keywords |-> {<<"incident">>, <<"unusual", "occurrence">>, <<"deviation">>,
                   <<"violation">>}],
    [type |-> "maintenance_report",
     keywords |-> {<<"maintenance">>, <<"mechanical", "issue">>, <<"inspection">>,
                   <<"logbook">>}],
    [type |-> "operational_report",
     keywords |-> {<<"delay">>, <<"gate", "change">>, <<"passenger", "issue">>,
                   <<"ground", "stop">>}]>>

\* keywords.some(keyword => text.includes(keyword))
Matches(entry, text) == \E keyword \in entry.keywords : Includes(text, keyword)

\* the entries of a table, in order, that the text matches
Matching(table, text) == {i \in 1..Len(table) : Matches(table[i], text)}

\* a loop that does not return at the first match: the last entry that matches
LastMatch(table, text) ==
  table[CHOOSE i \in Matching(table, text) : \A j \in Matching(table, text) : j <= i].type

\* the for loop over Object.entries(table): the first entry that matches
FirstMatch(table, text) ==
  table[CHOOSE i \in Matching(table, text) : \A j \in Matching(table, text) : i <= j].type

Routes == {"shift-data", "process-transcript"}

\* a ladder that looks at the warnings before the emergencies
DetectWarningsFirst(route, transcript) ==
  LET text == ToLowerCase(transcript)
  IN  IF route = "shift-data" /\ Matching(WarningTypes, text) # {}
      THEN FirstMatch(WarningTypes, text)
      ELSE IF Matching(EmergencyTypes, text) # {} THEN FirstMatch(EmergencyTypes, text)
      ELSE IF route = "process-transcript" THEN "general_emergency"
      ELSE IF Matching(ReportTypes, text) # {} THEN FirstMatch(ReportTypes, text)
      ELSE "general_communication"

\* shift-data: emergencies, then warnings, then reports, else
\* general_communication; process-transcript: emergencies, else general_emergency
DetectEmergencyType(route, transcript) ==
  LET text == ToLowerCase(transcript)
  IN  IF Matching(EmergencyTypes, text) # {} THEN FirstMatch(EmergencyTypes, text)
      ELSE IF route = "process-transcript" THEN "general_emergency"
      ELSE IF Matching(WarningTypes, text) # {} THEN FirstMatch(WarningTypes, text)
      ELSE IF Matching(ReportTypes, text) # {} THEN FirstMatch(ReportTypes, text)
      ELSE "general_communication"

DetermineSeverity(route, emergencyType) ==
  IF emergencyType \in {"mayday_call", "engine_failure", "fire_emergency",
                        "medical_emergency"} THEN "CRITICAL"
  ELSE IF emergencyType \in {"bird_strike", "fuel_emergency", "hydraulic_failure",
                             "security_threat"} THEN "HIGH"
  ELSE IF route = "process-transcript" THEN "MEDIUM"
  ELSE IF emergencyType \in {"weather_warning", "equipment_warning"} THEN "HIGH"
  ELSE IF emergencyType \in {"traffic_warning", "altitude_warning", "navigation_warning",
                             "communication_warning", "incident_report"} THEN "MEDIUM"
  ELSE "LOW"

\* shift-data computes the category; process-transcript writes 'EMERGENCY'
DetermineCategory(route, emergencyType) ==
  IF route = "process-transcript" THEN "EMERGENCY"
  ELSE IF emergencyType \in {"mayday_call", "engine_failure", "fire_emergency",
                             "medical_emergency", "bird_strike", "fuel_emergency",
                             "hydraulic_failure", "pressurization_emergency",
                             "security_threat", "general_emergency"} THEN "EMERGENCY"
  ELSE IF emergencyType \in {"weather_warning", "equipment_warning", "traffic_warning",
                             "altitude_warning", "navigation_warning",
                             "communication_warning"} THEN "WARNING"
  ELSE IF emergencyType \in {"pirep_turbulence", "pirep_weather", "pirep_winds",
                             "incident_report", "maintenance_report",
                             "operational_report"} THEN "REPORT"
  ELSE "ALERT"

ShouldCreateAlert(emergencyType) == emergencyType # "general_communication"

\* What the extraction service contributes to a request: "unavailable" is a
\* missing API key, a non-OK answer, an empty answer or unparsable JSON, all
\* of which make the handler use the fallback data; every other value is the
\* "emergencies" field of the JSON the service returned.
ServiceAnswers == {"unavailable", "", "fire_emergency", "none"}

\* asiOneData.emergencies || detectEmergencyType(transcript), where the
\* fallback data carries detectEmergencyType(transcript) itself
EmergencyType(route, transcript, service) ==
  IF service \in {"unavailable", ""} THEN DetectEmergencyType(route, transcript)
  ELSE service

NoTranscript == [route |-> "none", transcript |-> <<>>, isEmergency |-> FALSE,
                 responses |-> <<>>]

\* does the handler create an alert
Creates(route, isEmergency, emergencyType) ==
  IF route = "process-transcript" THEN isEmergency
  ELSE isEmergency \/ ShouldCreateAlert(emergencyType)

\* the answer of the transcript handler; the type, severity and category are
\* those of the alert it stored, "n/a" when it stored none
Response(route, transcript, isEmergency, service) ==
  LET emergencyType == EmergencyType(route, transcript, service)
  IN  IF transcript = <<>> \/ Length(transcript) < 5
      THEN [status |-> 400, service |-> service, created |-> FALSE,
            emergency_type |-> "n/a", severity |-> "n/a", category |-> "n/a"]
      ELSE IF ~Creates(route, isEmergency, emergencyType)
      THEN [status |-> 200, service |-> service, created |-> FALSE,
            emergency_type |-> "n/a", severity |-> "n/a", category |-> "n/a"]
      ELSE [status |-> 200, service |-> service, created |-> TRUE,
            emergency_type |-> emergencyType,
            severity |-> DetermineSeverity(route, emergencyType),
            category |-> DetermineCategory(route, emergencyType)]

\* POST of either transcript route, for the transcript under classification:
\* validate, ask the extraction service, classify, store the alert, answer
ProcessTranscript ==
  \E service \in ServiceAnswers :
    LET c == classified
        response == Response(c.route, c.transcript, c.isEmergency, service)
    IN  /\ c.route \in Routes
        /\ Len(c.responses) < MaxPosts
        /\ classified' = [c EXCEPT !.responses = Append(@, response)]
        /\ IF response.created
           THEN /\ nextAlert' = nextAlert + 1
                /\ emergencies' = KeepFirst(<<NewAlert(nextAlert + 1)>> \o emergencies,
                                            AlertRetention)
                /\ emergenciesExists' = TRUE
           ELSE UNCHANGED <<nextAlert, emergencies, emergenciesExists>>
        /\ UNCHANGED <<env, records, dispatch, emReq, listing, history, panel>>

(* ---------------------------- specification ---------------------------- *)

Init ==
  /\ env \in [credentials : BOOLEAN, catalog : CatalogFiles, rev : {1, 2},
              directory : {"absent"}, types : {RequestTypes},
              recordsFile : {"writable"}]
  /\ emergenciesExists = FALSE
  /\ emergencies = <<>>
  /\ nextAlert = 0
  /\ records = <<>>
  /\ dispatch = [r \in Reqs |-> Idle]
  /\ emReq = [id |-> 0, action |-> "none", status |-> 0]
  /\ listing = NoListing
  /\ history = NoHistory
  /\ classified = NoTranscript
  /\ panel = NoPanel

Next ==
  \/ CreateAlert
  \/ EmergencyAction
  \/ \E r \in Reqs : DispatchRefuse(r)
  \/ \E r \in Reqs : DispatchSimulated(r)
  \/ \E r \in Reqs : DispatchCallProvider(r)
  \/ \E r \in Reqs : ProviderReturn(r)

Spec == Init /\ [][Next]_vars

\* the stores and the requests before anything has run
Fresh ==
  /\ emergenciesExists = FALSE
  /\ emergencies = <<>>
  /\ nextAlert = 0
  /\ records = <<>>
  /\ dispatch = [r \in Reqs |-> Idle]
  /\ emReq = [id |-> 0, action |-> "none", status |-> 0]
  /\ listing = NoListing
  /\ history = NoHistory
  /\ panel = NoPanel

\* The alert listing next to the handlers that create and change alerts.
InitListing ==
  /\ env \in [credentials : {FALSE}, catalog : {"shipped"}, rev : {1},
              directory : {"absent"}, types : {RequestTypes},
              recordsFile : {"writable"}]
  /\ Fresh
  /\ classified = NoTranscript

NextListing ==
  \/ CreateAlertUpTo(MaxListed)
  \/ EmergencyAction
  \/ ListEmergencies

SpecListing == InitListing /\ [][NextListing]_vars

\* The dispatch history next to the dispatch handler in simulation mode.
InitHistory ==
  /\ env \in [credentials : {FALSE}, catalog : {"shipped"}, rev : {1, 2},
              directory : {"absent"}, types : {RequestTypes},
              recordsFile : {"writable"}]
  /\ Fresh
  /\ classified = NoTranscript

NextHistory ==
  \/ \E r \in Reqs : DispatchRefuse(r)
  \/ \E r \in Reqs : DispatchSimulated(r)
  \/ GetDispatchRecords

SpecHistory == InitHistory /\ [][NextHistory]_vars

\* The transcript handlers, each run posting one transcript up to MaxPosts times.
InitClassify ==
  /\ env \in [credentials : {FALSE}, catalog : {"shipped"}, rev : {1},
              directory : {"absent"}, types : {RequestTypes},
              recordsFile : {"writable"}]
  /\ Fresh
  /\ classified \in [route : Routes, transcript : Transcripts, isEmergency : BOOLEAN,
                     responses : {<<>>}]

NextClassify == ProcessTranscript

SpecClassify == InitClassify /\ [][NextClassify]_vars

\* The dispatch handler with a directory file that names no fire_rescue
\* number, for requests whose protocol names fire_rescue first.
InitDirectory ==
  /\ env \in [credentials : BOOLEAN, catalog : {"shipped"}, rev : {1, 2},
              directory : {"no_fire_rescue"}, types : {{"engine_failure"}},
              recordsFile : {"writable"}]
  /\ Fresh
  /\ classified = NoTranscript

SpecDirectory == InitDirectory /\ [][Next]_vars

\* The dispatch engine as shipped, for the one emergency type bird_strike.
InitShipped ==
  /\ env \in [credentials : BOOLEAN, catalog : {"shipped"}, rev : {1, 2},
              directory : {"absent"}, types : {{"bird_strike"}},
              recordsFile : {"writable"}]
  /\ Fresh
  /\ classified = NoTranscript

\* The dispatch handler alone: alerts are stored and dispatches are served.
NextCalls ==
  \/ CreateAlert
  \/ \E r \in Reqs : DispatchRefuse(r)
  \/ \E r \in Reqs : DispatchSimulated(r)
  \/ \E r \in Reqs : DispatchCallProvider(r)
  \/ \E r \in Reqs : ProviderReturn(r)

SpecCalls == InitShipped /\ [][NextCalls]_vars

\* The writers of the two stores, overlapping: operator actions on any alert
\* next to dispatches of alert 1, simulated or awaiting the provider.
InitWriters ==
  /\ env \in [credentials : BOOLEAN, catalog : {"shipped"}, rev : {1},
              directory : {"absent"}, types : {{"bird_strike"}},
              recordsFile : {"writable"}]
  /\ Fresh
  /\ classified = NoTranscript

NextWriters ==
  \/ CreateAlert
  \/ EmergencyAction
  \/ \E r \in Reqs : DispatchSimulated(r) /\ dispatch'[r].body.alertId = 1
  \/ \E r \in Reqs : DispatchCallProvider(r) /\ dispatch'[r].body.alertId = 1
  \/ \E r \in Reqs : ProviderReturn(r)

SpecWriters == InitWriters /\ [][NextWriters]_vars

\* The same engine when it keeps serving: a step is taken whenever one is
\* possible, so every awaited provider answer arrives and the handlers run on.
SpecLive == InitShipped /\ [][Next]_vars /\ WF_vars(Next)

\* a record of a simulated call that is still calling
CallingRecord ==
  [alert_id |-> 1, emergency_type |-> "bird_strike", call_recipient |-> "airport_ops",
   call_status |-> "calling", call_id |-> "sim_call"]

\* The engine in simulation mode after RecordRetention dispatches of alert 1:
\* the store is at its retention count and every record is still calling.
InitRetention ==
  /\ env \in [credentials : {FALSE}, catalog : {"shipped"}, rev : {1, 2},
              directory : {"absent"}, types : {{"bird_strike"}},
              recordsFile : {"writable"}]
  /\ emergenciesExists = TRUE
  /\ emergencies = UpdateEmergencyStatus(TRUE, <<NewAlert(1)>>, 1)
  /\ nextAlert = 1
  /\ records = [i \in 1..RecordRetention |-> CallingRecord]
  /\ dispatch = [r \in Reqs |-> Idle]
  /\ emReq = [id |-> 0, action |-> "none", status |-> 0]
  /\ listing = NoListing
  /\ history = NoHistory
  /\ panel = NoPanel
  /\ classified = NoTranscript

NextRetention ==
  \/ EmergencyAction
  \/ \E r \in Reqs : DispatchRefuse(r)
  \/ \E r \in Reqs : DispatchSimulated(r)

SpecRetention == InitRetention /\ [][NextRetention]_vars

\* The dispatch engine when be/dispatch_records.json cannot be written.
InitFaults ==
  /\ env \in [credentials : BOOLEAN, catalog : {"shipped"}, rev : {1, 2},
              directory : {"absent"}, types : {{"bird_strike"}},
              recordsFile : {"unwritable"}]
  /\ Fresh
  /\ classified = NoTranscript

SpecFaults == InitFaults /\ [][Next]_vars

\* The dispatch engine with a provider, when the process may die and restart.
InitCrash ==
  /\ env \in [credentials : {TRUE}, catalog : {"shipped"}, rev : {1, 2},
              directory : {"absent"}, types : {{"bird_strike"}},
              recordsFile : {"writable"}]
  /\ Fresh
  /\ classified = NoTranscript

NextCrash ==
  \/ CreateAlert
  \/ EmergencyAction
  \/ \E r \in Reqs : DispatchRefuse(r)
  \/ \E r \in Reqs : DispatchCallProvider(r)
  \/ \E r \in Reqs : ProviderReturn(r)
  \/ Crash

SpecCrash == InitCrash /\ [][NextCrash]_vars

\* The alerts panel next to the handlers it calls and the transcript handler
\* that creates the alerts.
InitDashboard ==
  /\ env \in [credentials : BOOLEAN, catalog : {"shipped"}, rev : {1, 2},
              directory : {"absent"}, types : {{"bird_strike"}},
              recordsFile : {"writable"}]
  /\ Fresh
  /\ classified = NoTranscript

NextDashboard ==
  \/ CreateAlertUpTo(MaxAlerts + 1)
  \/ Poll
  \/ ClickDispatch
  \/ PressD
  \/ DispatchAnswered

SpecDashboard == InitDashboard /\ [][NextDashboard]_vars

(* ------------------------------ properties ----------------------------- *)

Outstanding(a) ==
  {i \in 1..Len(records) :
     records[i].alert_id = a /\ records[i].call_status \in {"pending", "calling"}}

\* the step in which request r reaches the handler
Arrival(r) == dispatch[r].pc = "idle" /\ dispatch'[r].pc # "idle"

\* a step of the POST /api/emergencies handler: the only handler that leaves
\* the dispatch requests and the alert counter alone
EmergencyStep == dispatch' = dispatch /\ nextAlert' = nextAlert

StatusOf(ems, id) == AlertOf(ems, id).status

\* C1: for every alert id the dispatch store holds at most one record whose
\* call_status is pending or calling.
C1_AtMostOneOutstanding ==
  \A a \in StoredIds : Cardinality(Outstanding(a)) <= 1

\* C2: a dispatch request that arrives for an alert while another request for
\* it is awaiting the provider, or while a record of it is calling, is answered
\* 409 and creates no record, so that one record exists for the alert.
C2_OverlapConflict ==
  [][\A r \in Reqs :
       (/\ Arrival(r)
        /\ dispatch'[r].body.alertId \in StoredIds
        /\ \/ \E q \in Reqs \ {r} :
                /\ dispatch[q].pc = "awaiting"
                /\ dispatch[q].body.alertId = dispatch'[r].body.alertId
           \/ Outstanding(dispatch'[r].body.alertId) # {})
       => (/\ dispatch'[r].pc = "done"
           /\ dispatch'[r].status = 409
           /\ records' = records)]_vars

\* C3: an alert whose status is RESOLVED keeps that status in every later
\* state, whatever request is handled.
C3_ResolvedIsTerminal ==
  [][\A i \in 1..Len(emergencies) :
       emergencies[i].status = "RESOLVED"
       => \A j \in 1..Len(emergencies') :
            emergencies'[j].id = emergencies[i].id
            => emergencies'[j].status = "RESOLVED"]_vars

\* C4: a dispatch request that arrives for an alert whose status is RESOLVED
\* is refused: no provider call is placed and no record is created.
C4_NoDispatchAfterResolve ==
  [][\A r \in Reqs :
       (/\ Arrival(r)
        /\ dispatch'[r].body.alertId \in StoredIds
        /\ StatusOf(emergencies, dispatch'[r].body.alertId) = "RESOLVED")
       => (/\ dispatch'[r].pc = "done"
           /\ dispatch'[r].status # 200
           /\ dispatch'[r].attempts = 0
           /\ records' = records)]_vars

\* C5: a dispatch request for a stored alert with no outstanding record, once
\* answered, has left the alert DISPATCHED and escalated and has appended one
\* record for it, calling if the provider accepted and failed otherwise.
C5_DispatchEffect ==
  [][\A r \in Reqs :
       (/\ dispatch[r].pc # "done" /\ dispatch'[r].pc = "done"
        /\ dispatch'[r].body.alertId \in StoredIds
        /\ Outstanding(dispatch'[r].body.alertId) = {})
       => LET a == dispatch'[r].body.alertId
              alert == AlertOf(emergencies', a)
              n == Len(records')
          IN  /\ alert.status = "DISPATCHED"
              /\ alert.escalated
              /\ n = Len(records) + 1
              /\ SubSeq(records', 1, n - 1) = records
              /\ records'[n].alert_id = a
              /\ dispatch'[r].provider = "ok" => records'[n].call_status = "calling"
              /\ dispatch'[r].provider \in {"http_error", "exception"}
                 => records'[n].call_status = "failed"]_vars

\* The same effect, for the requests the handler serves: whenever the answer
\* is not the 500 of the catch block, the alert is DISPATCHED and escalated and
\* one record has been appended with the status the provider's answer gives.
DispatchEffectWhenServed ==
  [][\A r \in Reqs :
       (/\ dispatch[r].pc # "done" /\ dispatch'[r].pc = "done"
        /\ dispatch'[r].status # 500
        /\ dispatch'[r].body.alertId \in StoredIds
        /\ Outstanding(dispatch'[r].body.alertId) = {})
       => LET a == dispatch'[r].body.alertId
              alert == AlertOf(emergencies', a)
              n == Len(records')
          IN  /\ alert.status = "DISPATCHED"
              /\ alert.escalated
              /\ n = Len(records) + 1
              /\ SubSeq(records', 1, n - 1) = records
              /\ records'[n].alert_id = a
              /\ dispatch'[r].provider = "ok" => records'[n].call_status = "calling"
              /\ dispatch'[r].provider \in {"http_error", "exception"}
                 => records'[n].call_status = "failed"]_vars

\* C6: acknowledge sets acknowledged; it changes the status to ACKNOWLEDGED
\* only from ACTIVE, leaves a DISPATCHED status alone and does not touch a
\* RESOLVED alert.
C6_AcknowledgeFrame ==
  [][(/\ EmergencyStep
      /\ emReq'.action = "acknowledge"
      /\ emReq'.id \in StoredIds)
     => LET before == AlertOf(emergencies, emReq'.id)
            after  == AlertOf(emergencies', emReq'.id)
        IN  /\ before.status = "ACTIVE"
               => after.status = "ACKNOWLEDGED" /\ after.acknowledged
            /\ before.status = "ACKNOWLEDGED"
               => after.status = "ACKNOWLEDGED" /\ after.acknowledged
            /\ before.status = "DISPATCHED"
               => after.status = "DISPATCHED" /\ after.acknowledged
            /\ before.status = "RESOLVED" => after = before]_vars

\* C7: an acknowledge naming an id that no stored alert has is answered 404
\* and changes no stored alert.
C7_UnknownIdIs404 ==
  [][(/\ EmergencyStep
      /\ emReq'.action = "acknowledge"
      /\ emReq'.id # 0
      /\ emReq'.id \notin StoredIds)
     => (emReq'.status = 404 /\ emergencies' = emergencies)]_vars

\* the entries of the catalog file the deployment carries
CatalogEntries == IF env.catalog = "absent" THEN {} ELSE DOMAIN ParsedCatalog(env.catalog)

\* C8: a request whose emergency type has no catalog entry is served with
\* general_emergency's recipients, never an empty list, and does not end in an
\* error, also when the catalog file has no general_emergency entry.
C8_FallbackToGeneral ==
  \A r \in Reqs :
    (/\ dispatch[r].pc # "idle"
     /\ dispatch[r].body.alertId # 0
     /\ dispatch[r].body.emergencyType \notin CatalogEntries)
    => (/\ dispatch[r].status # 500
        /\ dispatch[r].recipients = ShippedProtocols["general_emergency"].recipients
        /\ dispatch[r].recipients # <<>>)

\* C9: the script a dispatch renders holds none of the placeholders
\* {callsign}, {description}, {souls}, {timestamp}.
C9_NoRawPlaceholder ==
  \A r \in Reqs :
    dispatch[r].pc # "idle" => Range(dispatch[r].script) \cap Placeholders = {}

\* C10: a dispatch whose provider call fails is answered after three call
\* attempts, with its record failed and its alert DISPATCHED.
C10_ThreeAttempts ==
  [][\A r \in Reqs :
       (/\ dispatch[r].pc # "done" /\ dispatch'[r].pc = "done"
        /\ dispatch'[r].provider \in {"http_error", "exception"}
        /\ dispatch'[r].body.alertId \in StoredIds)
       => (/\ dispatch'[r].attempts = 3
           /\ records'[Len(records')].call_status = "failed"
           /\ StatusOf(emergencies', dispatch'[r].body.alertId) = "DISPATCHED")]_vars

(* --------------------- reporting of failed dispatches ------------------ *)

\* the step in which request r is answered
Answered(r) == dispatch[r].pc # "done" /\ dispatch'[r].pc = "done"

ProviderFailed(d) == d.provider \in {"http_error", "exception"}

\* C11: when the provider call of a dispatch fails, the answer is not one the
\* dashboard takes for success: handleDispatch does not mark the alert
\* dispatched and does not show the dispatch as initiated, and the handler
\* leaves the stored alert as it was.
C11_FailureNotReportedAsPlaced ==
  [][\A r \in Reqs :
       (Answered(r) /\ ProviderFailed(dispatch'[r]))
       => (/\ ~HandleDispatch(dispatch'[r]).marksDispatched
           /\ HandleDispatch(dispatch'[r]).toast # "EMERGENCY DISPATCH INITIATED"
           /\ emergencies' = emergencies)]_vars

ListedIds(exists, ems) ==
  {GetEmergencies(exists, ems)[i].id : i \in 1..Len(GetEmergencies(exists, ems))}

\* C12: a dispatch whose provider call fails, for an alert the listing
\* returned, leaves a failed record for that alert in the dispatch store, and
\* the listing still returns the alert.
C12_FailureStaysVisible ==
  [][\A r \in Reqs :
       (/\ Answered(r)
        /\ ProviderFailed(dispatch'[r])
        /\ dispatch'[r].body.alertId \in ListedIds(emergenciesExists, emergencies))
       => (/\ \E i \in 1..Len(records') :
                 /\ records'[i].alert_id = dispatch'[r].body.alertId
                 /\ records'[i].call_status = "failed"
           /\ dispatch'[r].body.alertId \in ListedIds(emergenciesExists', emergencies'))]_vars

(* ----------------------------- classification -------------------------- *)

\* the transcript names 'mayday'
SaysMayday(transcript) == Includes(ToLowerCase(transcript), <<"mayday">>)

\* the transcript holds one of the engine-failure keywords
SaysEngineFailure(transcript) ==
  \E keyword \in {<<"engine", "failure">>, <<"engine", "fire">>, <<"lost", "engine">>,
                   <<"engine", "out">>} : Includes(ToLowerCase(transcript), keyword)

\* the responses in which the keyword ladder decided the type and an alert
\* was stored
LadderResponses ==
  {i \in 1..Len(classified.responses) :
     /\ classified.responses[i].created
     /\ classified.responses[i].service \in {"unavailable", ""}}

NoKeyword(transcript) ==
  /\ Matching(EmergencyTypes, ToLowerCase(transcript)) = {}
  /\ Matching(WarningTypes, ToLowerCase(transcript)) = {}
  /\ Matching(ReportTypes, ToLowerCase(transcript)) = {}

\* C14: a transcript that holds no known keyword is answered without an
\* error and classified general_emergency with category ALERT by the ladder.
C14_NoKeywordIsGeneralEmergency ==
  \A i \in 1..Len(classified.responses) :
    (/\ NoKeyword(classified.transcript)
     /\ classified.responses[i].service \in {"unavailable", ""})
    => (/\ classified.responses[i].status = 200
        /\ classified.responses[i].emergency_type = "general_emergency"
        /\ classified.responses[i].category = "ALERT")

\* C15: all responses to the same transcript and isEmergency hint carry the
\* same type, severity and category, whatever the extraction service answers.
C15_SameTranscriptSameClass ==
  \A i, j \in 1..Len(classified.responses) :
    /\ classified.responses[i].emergency_type = classified.responses[j].emergency_type
    /\ classified.responses[i].severity = classified.responses[j].severity
    /\ classified.responses[i].category = classified.responses[j].category

(* -------------------------------- reads -------------------------------- *)

\* C16: GET /api/dispatch?limit=n answers with at most n records: the n most
\* recently saved ones, or all when fewer are stored, newest first, for every
\* n >= 0.
C16_LimitBoundsHistory ==
  [][history' # history
     => LET n == history'.limit
            got == history'.records
            len == Len(records)
        IN  /\ Len(got) <= n
            /\ Len(got) = (IF n < len THEN n ELSE len)
            /\ \A i \in 1..Len(got) : got[i] = records[len + 1 - i]]_vars

\* C17: GET /api/emergencies answers 200 with the stored alerts whose status
\* is ACTIVE, all of them and no other, in the order of the store.
C17_ListingIsActiveInOrder ==
  [][listing' # listing
     => LET got == listing'.emergencies
            active == {i \in 1..Len(emergencies) : emergencies[i].status = "ACTIVE"}
        IN  /\ listing'.status = 200
            /\ Len(got) = Cardinality(active)
            /\ \E at \in [1..Len(got) -> active] :
                 /\ \A i, j \in 1..Len(got) : i < j => at[i] < at[j]
                 /\ \A i \in 1..Len(got) : got[i] = emergencies[at[i]]]_vars

\* the listing of a store that holds an alert that is not ACTIVE between two
\* ACTIVE ones
C17_Witness ==
  /\ Len(emergencies) = 3
  /\ emergencies[2].status # "ACTIVE"
  /\ listing.status = 200
  /\ listing.emergencies = <<emergencies[1], emergencies[3]>>
  /\ emergencies[1].status = "ACTIVE" /\ emergencies[3].status = "ACTIVE"

(* ------------------------------ recipients ----------------------------- *)

\* C18: the script rendered for a request whose message says "180 souls" has
\* 180 wherever its protocol's template has {souls}, and not the marker of an
\* unknown number.
C18_SoulsRendered ==
  \A r \in Reqs :
    (/\ dispatch[r].script # <<>>
     /\ SoulsAt(dispatch[r].body.originalMessage) # {})
    => (/\ \A i \in 1..Len(Protocol(dispatch[r].body).script) :
             Protocol(dispatch[r].body).script[i] = "{souls}"
             => dispatch[r].script[i] = SoulsMatch(dispatch[r].body.originalMessage)
        /\ "unknown number of" \notin Range(dispatch[r].script))

\* the role has a number in the directory the handler reads
Configured(role) == role \in DOMAIN EmergencyServices(env.directory)

\* C19: a request whose protocol names first a role that has no number in
\* the directory is answered with a failure, without a provider call, a
\* record or a change of the alert.
C19_UnconfiguredFailsClosed ==
  [][\A r \in Reqs :
       (/\ Arrival(r)
        /\ dispatch'[r].recipients # <<>>
        /\ ~Configured(dispatch'[r].recipients[1]))
       => (/\ dispatch'[r].pc = "done"
           /\ ~ResponseOk(dispatch'[r].status)
           /\ dispatch'[r].attempts = 0
           /\ records' = records
           /\ emergencies' = emergencies)]_vars

\* C20: a dispatch request places at most one provider call, and the call
\* goes to the number of the first recipient of the protocol's list.
C20_OneCallToFirstRecipient ==
  \A r \in Reqs :
    /\ dispatch[r].attempts <= 1
    /\ dispatch[r].attempts = 1
       => (/\ Configured(dispatch[r].recipients[1])
           /\ dispatch[r].phone = EmergencyServices(env.directory)[dispatch[r].recipients[1]])

(* ------------------------------ dashboard ------------------------------ *)

\* the requests the panel has in flight for alert x
InFlightFor(x) == {k \in 1..Len(panel.inFlight) : panel.inFlight[k] = x}

\* C30: the alerts panel never has two dispatch requests in flight for the
\* same alert.
C30_NoSecondDispatchInFlight ==
  \A x \in 1..(MaxAlerts + 1) : Cardinality(InFlightFor(x)) <= 1

(* ------------------------------- durability --------------------------- *)

\* C21: when the write of the dispatch record fails, the request is not
\* answered with success and the stored alerts are as they were before it.
C21_WriteFailureRollsBack ==
  [][\A r \in Reqs :
       (/\ Answered(r)
        /\ dispatch'[r].call_status \in {"calling", "failed"}
        /\ env.recordsFile = "unwritable")
       => (/\ ~ResponseOk(dispatch'[r].status)
           /\ emergencies' = emergencies)]_vars

\* the store holds a record of a provider call for the alert of request r
Recorded(r) ==
  \E i \in 1..Len(records) :
    /\ records[i].alert_id = dispatch[r].body.alertId
    /\ records[i].call_id = "provider_call"

\* C22: in every state, also after a crash, a call the provider has accepted
\* has a record in the dispatch store.
C22_AcceptedCallIsRecorded ==
  \A r \in Reqs : dispatch[r].provider = "ok" => Recorded(r)

\* C23: without credentials a served dispatch contacts no provider, saves
\* its record with the simulation tag as call id and leaves a stored alert
\* DISPATCHED; with credentials no saved record carries the simulation tag.
C23_SimulationIsTagged ==
  [][\A r \in Reqs :
       (Answered(r) /\ dispatch'[r].status = 200)
       => LET last == records'[Len(records')]
              a == dispatch'[r].body.alertId
          IN  /\ Len(records') = Len(records) + 1
              /\ last.alert_id = a
              /\ IF env.credentials
                 THEN /\ dispatch'[r].attempts = 1
                      /\ last.call_id # "sim_call"
                 ELSE /\ dispatch'[r].attempts = 0
                      /\ last.call_id = "sim_call"
                      /\ last.call_status = "calling"
                      /\ a \in StoredIds => StatusOf(emergencies', a) = "DISPATCHED"]_vars

\* a simulated dispatch of a stored alert has been served
C23_Witness ==
  \E r \in Reqs :
    /\ dispatch[r].pc = "done" /\ dispatch[r].provider = "sim"
    /\ dispatch[r].body.alertId \in StoredIds
    /\ StatusOf(emergencies, dispatch[r].body.alertId) = "DISPATCHED"
    /\ \E i \in 1..Len(records) : records[i].call_id = "sim_call"

\* the store holds a calling record for alert a
HasCalling(a) ==
  \E i \in 1..Len(records) : records[i].alert_id = a /\ records[i].call_status = "calling"

\* C26: a record that is calling is completed or failed at some later time:
\* no alert keeps a calling record forever.
C26_CallingEnds == \A a \in RequestIds : HasCalling(a) ~> ~HasCalling(a)

\* the number of records of the store that are pending or calling
OutstandingCount(recs) ==
  Cardinality({i \in 1..Len(recs) : recs[i].call_status \in {"pending", "calling"}})

\* C27: saving the record of a served dispatch removes no pending or calling
\* record: the store holds as many of them as before, and one more when the
\* new record is calling.
C27_PruningKeepsOutstanding ==
  [][\A r \in Reqs :
       (Answered(r) /\ dispatch'[r].status = 200)
       => OutstandingCount(records')
            >= OutstandingCount(records)
               + (IF dispatch'[r].call_status = "calling" THEN 1 ELSE 0)]_vars

\* the request whose handler may have written alert id in this step
WrittenBy(id) ==
  \/ EmergencyStep /\ emReq'.id = id /\ emReq'.status = 200
  \/ \E r \in Reqs : Answered(r) /\ dispatch'[r].body.alertId = id

C29_RecordNamesStoredAlert ==
  \A i \in 1..Len(records) : records[i].alert_id \in StoredIds

\* the type is that of the first entry of the table, in declaration order,
\* one of whose keywords the text holds
FirstOf(table, text, type) ==
  \E i \in 1..Len(table) :
    /\ table[i].type = type
    /\ Matches(table[i], text)
    /\ \A j \in 1..(i - 1) : ~Matches(table[j], text)

\* C24: the shift-data keyword ladder goes bucket by bucket: a transcript
\* with an EMERGENCY keyword gets the first matching EMERGENCY type, one with
\* a WARNING keyword and no EMERGENCY keyword the first matching WARNING
\* type, one with only REPORT keywords the first matching REPORT type.
C24_BucketByBucket ==
  \A i \in LadderResponses :
    LET text == ToLowerCase(classified.transcript)
        got == classified.responses[i]
        E == Matching(EmergencyTypes, text) # {}
        W == Matching(WarningTypes, text) # {}
        R == Matching(ReportTypes, text) # {}
    IN  classified.route = "shift-data"
        => /\ E => FirstOf(EmergencyTypes, text, got.emergency_type)
                    /\ got.category = "EMERGENCY"
           /\ (~E /\ W) => FirstOf(WarningTypes, text, got.emergency_type)
                            /\ got.category = "WARNING"
           /\ (~E /\ ~W /\ R) => FirstOf(ReportTypes, text, got.emergency_type)
                                  /\ got.category = "REPORT"

\* the ladder of shift-data has classified a transcript that holds a WARNING
\* keyword next to an EMERGENCY keyword
C24_Witness ==
  /\ classified.route = "shift-data"
  /\ classified.transcript = <<"turbulence", "fire">>
  /\ LadderResponses # {}

\* C25: shift-data stores a new alert, ACTIVE and neither acknowledged nor
\* escalated, whenever the classified category is EMERGENCY, WARNING or
\* REPORT, and stores none for a transcript without any keyword that the
\* caller did not flag as an emergency.
C25_AlertIffActionable ==
  /\ \A k \in 1..Len(emergencies) :
       /\ emergencies[k].status = "ACTIVE"
       /\ ~emergencies[k].acknowledged
       /\ ~emergencies[k].escalated
  /\ \A i \in 1..Len(classified.responses) :
       LET got == classified.responses[i]
           type == EmergencyType(classified.route, classified.transcript, got.service)
       IN  (classified.route = "shift-data" /\ got.status = 200)
           => LET actionable == DetermineCategory("shift-data", type)
                                  \in {"EMERGENCY", "WARNING", "REPORT"}
              IN  /\ actionable => got.created
                  /\ (/\ ~actionable
                      /\ NoKeyword(classified.transcript)
                      /\ ~classified.isEmergency) => ~got.created

====
